---- MODULE Spec2Model ----
\* foolscrate: the sync() retry loop of a Repository, the tracked-repository
\* registry and the sync_all_tracked() sweep, as state machines over the files
\* and locks they share (src/foolscrate/foolscrate.py).
EXTENDS Integers, Sequences, FiniteSets, TLC

\* ---------------------------------------------------------------- universe

\* OS processes that invoke the library. A process runs one sync() or one
\* sync_all_tracked() and exits; registry commands may follow one another.
Procs == {"p1", "p2"}

\* Absolute paths of the replica directories.
Replicas == {"r1", "r2"}

\* A directory that is no replica (a cron job starts in the user's home).
Home == "home"

\* Directories a process may have as its working directory.
Dirs == Replicas \cup {Home}

None == "none"

\* The replicas that direct sync() calls work on (the sweep visits all of them).
SyncTargets == {"r1"}

\* for attempt in range(0, 5)
MaxAttempts == 5

\* How many git commands may fail in one behaviour.
MaxFaults == 6

VARIABLES
    marker,     \* [Replicas -> BOOLEAN]: <dir>/CONFLICT_MUST_MANUALLY_MERGE exists
    midMerge,   \* [Replicas -> BOOLEAN]: the working tree has a merge in progress
    dirty,      \* [Replicas -> BOOLEAN]: the working tree has unstaged changes
    staged,     \* [Replicas -> BOOLEAN]: the index has uncommitted changes
    gaveUp,     \* [Replicas -> BOOLEAN]: a sync() gave up here, marker not removed since
    dirState,   \* [Replicas -> {"ok", "noid", "plain", "gone"}]: the directory is a
                \* configured repository, has .git but no client id, has no .git, is missing
    syncLock,   \* [Dirs -> holder]: the file lock <dir>/.foolscrate.lock
    fleetLock,  \* holder of the sync_all_tracked lock file
    trackLock,  \* holder of the registry lock file
    registry,   \* the registry file: has it a "track" key, and the list under it
    pc,         \* [Procs -> position]
    cwd,        \* [Procs -> Dirs]: working directory of the process
    sy,         \* [Procs -> record]: the sync() call of the process
    sw,         \* [Procs -> record]: the sync_all_tracked() call of the process
    rg,         \* [Procs -> record]: the registry operation of the process
    hist,       \* the last two finished registry operations, newest first
    faults,     \* git commands that have failed so far
    master,     \* [Replicas -> set of edits]: history of the local branch master
    tracking,   \* [Replicas -> set of edits]: refs/remotes/foolscrate/master
    clientRef,  \* [Replicas -> ref]: the local branch named after the client id
    remote,     \* set of edits: history of master in the shared remote
    clientId,   \* [Replicas -> id]: foolscrate.client-id in the local git config
    clash,      \* the edits of the two replicas touch the same line of one file
    crontab,    \* the crontab of the user: whether there is one, and its text
    cronLog     \* the calls of enable_foolscrate_cronjob() so far: the crontab
                \* before and after, and how the call ended

vars == <<marker, midMerge, dirty, staged, gaveUp, dirState, syncLock, fleetLock, trackLock,
          registry, pc, cwd, sy, sw, rg, hist, faults,
          master, tracking, clientRef, remote, clientId, clash, crontab, cronLog>>

tree == <<midMerge, dirty, staged>>
sweepVars == <<fleetLock, sw>>
trackVars == <<trackLock, registry, rg, hist>>
refs == <<master, tracking, clientRef, remote>>
gitVars == <<refs, clientId, clash>>
cronVars == <<crontab, cronLog>>

\* ---------------------------------------------------------------- Repository

\* The per-call state of sync(); the fields after "steps" record what the call
\* did, for the properties below.
SyNone ==
    [repo |-> None, caller |-> None, attempt |-> 0, steps |-> <<>>,
     vcsUsed |-> FALSE, onlyMergeFails |-> TRUE, pushed |-> FALSE,
     markerSince |-> FALSE, createdMarker |-> FALSE, leftMidMerge |-> FALSE,
     failedStep |-> None, outcome |-> None,
     clientId |-> None, staging |-> None, merged |-> FALSE, commits |-> 0,
     hadWork |-> FALSE, prior |-> None, masterAtCall |-> {}]

\* self._conflict_string = join(abs_local_directory, self.CONFLICT_STRING):
\* the directory whose marker file the terminal-failure path creates.
ConflictStringDir(p) == sy[p].repo

\* exists(self.CONFLICT_STRING): the bare file name, resolved by the OS against
\* the working directory of the process.
ConflictFound(p) == cwd[p] \in Replicas /\ marker[cwd[p]]

\* sync_lock_path or join(self.localdir, self.LOCKFILE_NAME): every caller in
\* the program leaves sync_lock_path unset.
SyncLockPathInCwd(p) == cwd[p]

SyncLockPath(p) == sy[p].repo

\* Positions of a sync() call inside the attempt loop.
LoopPCs == {"fetch", "add", "diff", "commit", "merge", "abort", "align", "push", "exhausted"}

InLoop(p) == pc[p] \in LoopPCs

\* Repository.__init__: ValueError unless the directory exists, is accessible
\* and holds .git; then "git config --get foolscrate.client-id", which exits
\* non-zero when the key is missing.
RepositoryInit(d) ==
    CASE dirState[d] \in {"gone", "plain"} -> "ValueError"
      [] dirState[d] = "noid" -> "CalledProcessError"
      [] OTHER -> "ok"

\* 'foolscrate-' + gethostname() + "-" + five random characters
ClientIds == {"c1", "c2"}

\* A replica that was never configured has no client ref.
NoRef == [name |-> None, at |-> {}]

\* self.client_id = self._git.cmd("config", "--local", "--get",
\* "foolscrate.client-id"): the Repository object for d, made by caller.
Constructed(d, caller) ==
    [SyNone EXCEPT !.repo = d, !.caller = caller, !.clientId = clientId[d]]

\* The edit made in the working tree of replica d is named d; a history is
\* the set of edits it contains.
Edits == Replicas

\* git merge stops on conflicting hunks: each side has an edit the other has
\* not, and the edits touch the same line.
MergeConflicts(d) ==
    clash /\ master[d] \ tracking[d] # {} /\ tracking[d] \ master[d] # {}

\* git merge makes a merge commit: neither "Already up to date" nor a
\* fast-forward.
MergeCommits(d) == master[d] \ tracking[d] # {} /\ tracking[d] \ master[d] # {}

\* master after git merge --no-edit foolscrate/master went through.
Merged(d) == master[d] \cup tracking[d]

\* A git reset --hard foolscrate/master in the place of the abort.
MergeAbortedToRemote(d) == tracking[d]

\* master after git merge --abort: as it was before the merge.
MergeAborted(d) == master[d]

\* A push with --force.
PushForced(d) == TRUE

\* git push foolscrate master <client id> (no --force): the remote takes master
\* only as a fast-forward of its own.
PushAccepted(d) == remote \subseteq master[d]

\* A commit made whatever the staged diff is.
AnyChangeAlways(d) == TRUE

\* any_change != "": git diff --staged printed something.
AnyChange(d) == staged[d]

\* Git.cmd(...): the command returns its output (TRUE) or raises
\* CalledProcessError (FALSE).
GitCmdReturns == BOOLEAN

\* git merge: done, stopped on conflicting hunks, or failed before it began.
MergeOutcomes == {"ok", "conflict", "error"}

\* A git command fails only while the behaviour has failures left.
Fault(failed) ==
    /\ failed => faults < MaxFaults
    /\ faults' = IF failed THEN faults + 1 ELSE faults

\* Where control goes when sync() returns or raises.
AfterSync(p) == IF sy[p].caller = "sweep" THEN "sw_after" ELSE "done"

\* The record of the call after one more git command.
Did(p, step) == [sy[p] EXCEPT !.steps = Append(@, step), !.vcsUsed = TRUE]

\* sync() stays inside the with-block.
Goto(p, rec, next) ==
    /\ sy' = [sy EXCEPT ![p] = rec]
    /\ pc' = [pc EXCEPT ![p] = next]
    /\ UNCHANGED syncLock

\* sync() leaves the with-block (return or exception): the lock is released.
Leave(p, rec, out, step, mm) ==
    /\ sy' = [sy EXCEPT ![p] = [rec EXCEPT !.outcome = out, !.failedStep = step,
                                           !.leftMidMerge = mm]]
    /\ pc' = [pc EXCEPT ![p] = AfterSync(p)]
    /\ syncLock' = [syncLock EXCEPT ![SyncLockPath(p)] = IF @ = p THEN None ELSE @]

\* "continue", or the end of the for loop.
NextAttempt(p, rec) ==
    IF rec.attempt < MaxAttempts
    THEN Goto(p, [rec EXCEPT !.attempt = @ + 1, !.steps = <<>>, !.staging = None,
                             !.merged = FALSE], "fetch")
    ELSE Goto(p, rec, "exhausted")

\* What the properties remember of the moment sync() is called by p: the
\* marker, the uncommitted work, the history of master, and the sync() of the
\* same replica that had returned before (if any).
Started(p, rec) ==
    [rec EXCEPT !.markerSince = marker[rec.repo],
                !.hadWork = dirty[rec.repo] \/ staged[rec.repo],
                !.masterAtCall = master[rec.repo],
                !.prior = IF \E q \in Procs \ {p} :
                                 pc[q] = "done" /\ sy[q].repo = rec.repo /\ sy[q].caller = "main"
                           THEN CHOOSE q \in Procs \ {p} :
                                 pc[q] = "done" /\ sy[q].repo = rec.repo /\ sy[q].caller = "main"
                           ELSE None]

\* A process builds a Repository for d and calls sync() on it.
SyncMain(p, d, wd) ==
    /\ pc[p] = "idle"
    /\ UNCHANGED faults
    /\ cwd' = [cwd EXCEPT ![p] = wd]
    /\ LET r == RepositoryInit(d) IN
        IF r = "ok"
        THEN /\ sy' = [sy EXCEPT ![p] = Started(p, Constructed(d, "main"))]
             /\ pc' = [pc EXCEPT ![p] = "acquire"]
        ELSE /\ sy' = [sy EXCEPT ![p] = [SyNone EXCEPT !.repo = d, !.caller = "main",
                                                       !.outcome = r, !.failedStep = "init"]]
             /\ pc' = [pc EXCEPT ![p] = "done"]
    /\ UNCHANGED <<marker, gaveUp, tree, dirState, syncLock, sweepVars, trackVars>>
    /\ UNCHANGED <<gitVars, cronVars>>

\* self._sync_lock.acquire(timeout=60): the lock file is free.
SyncAcquire(p) ==
    /\ pc[p] = "acquire"
    /\ syncLock[SyncLockPath(p)] = None
    /\ syncLock' = [syncLock EXCEPT ![SyncLockPath(p)] = p]
    /\ pc' = [pc EXCEPT ![p] = "check"]
    /\ UNCHANGED <<marker, gaveUp, tree, dirState, cwd, sy, sweepVars, trackVars, faults>>
    /\ UNCHANGED <<gitVars, cronVars>>

\* self._sync_lock.acquire(timeout=60): somebody held the lock for 60 seconds.
SyncLockTimeout(p) ==
    /\ pc[p] = "acquire"
    /\ syncLock[SyncLockPath(p)] \notin {None, p}
    /\ sy' = [sy EXCEPT ![p] = [@ EXCEPT !.outcome = "Timeout", !.failedStep = "lock",
                                         !.leftMidMerge = midMerge[sy[p].repo]]]
    /\ pc' = [pc EXCEPT ![p] = AfterSync(p)]
    /\ UNCHANGED <<marker, gaveUp, tree, dirState, syncLock, cwd, sweepVars, trackVars, faults>>
    /\ UNCHANGED <<gitVars, cronVars>>

\* if exists(self.CONFLICT_STRING): raise ValueError("Conflict found, not syncing")
SyncCheck(p) ==
    /\ pc[p] = "check"
    /\ IF ConflictFound(p)
       THEN Leave(p, sy[p], "ConflictFound", "check", midMerge[sy[p].repo])
       ELSE Goto(p, [sy[p] EXCEPT !.attempt = 1], "fetch")
    /\ UNCHANGED <<marker, gaveUp, tree, dirState, cwd, sweepVars, trackVars, faults>>
    /\ UNCHANGED <<gitVars, cronVars>>

\* ---------------------------------------------------------------- the attempt loop
\* Every git command either returns or raises CalledProcessError (Git.cmd).
\* Only the merge and the push are inside a try block.

\* self._git.cmd("fetch", "--all"): the remote-tracking ref takes the history
\* of the remote.
GitFetch(p) ==
    /\ pc[p] = "fetch"
    /\ \E ok \in GitCmdReturns :
        /\ Fault(~ok)
        /\ IF ok
           THEN /\ Goto(p, Did(p, "fetch"), "add")
                /\ tracking' = [tracking EXCEPT ![sy[p].repo] = remote]
           ELSE /\ Leave(p, Did(p, "fetch"), "CalledProcessError", "fetch", midMerge[sy[p].repo])
                /\ UNCHANGED tracking
    /\ UNCHANGED <<marker, gaveUp, tree, dirState, cwd, sweepVars, trackVars>>
    /\ UNCHANGED <<master, clientRef, remote, clientId, clash, cronVars>>

\* self._git.cmd("add", "-A"): the changes of the working tree go to the index.
GitAdd(p) ==
    /\ pc[p] = "add"
    /\ \E ok \in GitCmdReturns :
        /\ Fault(~ok)
        /\ IF ok
           THEN /\ Goto(p, Did(p, "add"), "diff")
                /\ staged' = [staged EXCEPT ![sy[p].repo] = @ \/ dirty[sy[p].repo]]
                /\ dirty' = [dirty EXCEPT ![sy[p].repo] = FALSE]
           ELSE /\ Leave(p, Did(p, "add"), "CalledProcessError", "add", midMerge[sy[p].repo])
                /\ UNCHANGED <<staged, dirty>>
    /\ UNCHANGED <<marker, gaveUp, midMerge, dirState, cwd, sweepVars, trackVars>>
    /\ UNCHANGED <<gitVars, cronVars>>

\* any_change = self._git.cmd("diff", "--staged").strip(); if any_change != "":
GitDiff(p) ==
    /\ pc[p] = "diff"
    /\ \E ok \in GitCmdReturns :
        /\ Fault(~ok)
        /\ IF ok
           THEN Goto(p, [Did(p, "diff") EXCEPT
                            !.staging = IF staged[sy[p].repo] THEN "changes" ELSE "empty"],
                     IF AnyChange(sy[p].repo) THEN "commit" ELSE "merge")
           ELSE Leave(p, Did(p, "diff"), "CalledProcessError", "diff", midMerge[sy[p].repo])
    /\ UNCHANGED <<marker, gaveUp, tree, dirState, cwd, sweepVars, trackVars>>
    /\ UNCHANGED <<gitVars, cronVars>>

\* self._git.cmd("commit", "-m", "Automatic foolscrate commit"): the staged
\* edit joins the history of master; a commit made while a merge is in
\* progress concludes that merge; with nothing staged git commit exits
\* non-zero ("nothing to commit").
GitCommit(p) ==
    /\ pc[p] = "commit"
    /\ LET d == sy[p].repo IN
       \E ok \in GitCmdReturns :
        /\ IF staged[d] \/ midMerge[d] THEN Fault(~ok) ELSE ~ok /\ UNCHANGED faults
        /\ IF ok
           THEN /\ Goto(p, [Did(p, "commit") EXCEPT !.commits = @ + 1], "merge")
                /\ master' = [master EXCEPT ![d] =
                                 IF midMerge[d] THEN Merged(d) \cup {e \in {d} : staged[d]}
                                 ELSE @ \cup {d}]
                /\ staged' = [staged EXCEPT ![d] = FALSE]
                /\ midMerge' = [midMerge EXCEPT ![d] = FALSE]
           ELSE /\ Leave(p, Did(p, "commit"), "CalledProcessError", "commit", midMerge[d])
                /\ UNCHANGED <<staged, midMerge, master>>
    /\ UNCHANGED <<marker, gaveUp, dirty, dirState, cwd, sweepVars, trackVars>>
    /\ UNCHANGED <<tracking, clientRef, remote, clientId, clash, cronVars>>

\* A merge failure that is swallowed: the attempt goes on to the realign.
MergeFailureIgnored(p, rec) == Goto(p, rec, "align")

\* except Exception as e: (around the merge) the attempt goes to the abort.
AfterMergeFailure(p, rec) == Goto(p, rec, "abort")

\* try: self._git.cmd("merge", "--no-edit", "foolscrate/master")
\* except Exception: ... A merge that stops on conflicting hunks leaves the
\* merge in progress; one that fails before it starts does not.
GitMerge(p) ==
    /\ pc[p] = "merge"
    /\ LET d == sy[p].repo IN
       \E r \in MergeOutcomes :
        /\ IF MergeConflicts(d) THEN r = "conflict" /\ UNCHANGED faults ELSE Fault(r # "ok")
        /\ IF r = "ok"
           THEN /\ Goto(p, [Did(p, "merge") EXCEPT
                               !.onlyMergeFails = FALSE, !.merged = TRUE,
                               !.commits = IF MergeCommits(d) THEN @ + 1 ELSE @], "align")
                /\ master' = [master EXCEPT ![d] = Merged(d)]
                /\ UNCHANGED midMerge
           ELSE /\ AfterMergeFailure(p, Did(p, "merge"))
                /\ midMerge' = [midMerge EXCEPT ![d] = @ \/ (r = "conflict")]
                /\ UNCHANGED master
    /\ UNCHANGED <<marker, gaveUp, dirty, staged, dirState, cwd, sweepVars, trackVars>>
    /\ UNCHANGED <<tracking, clientRef, remote, clientId, clash, cronVars>>

\* (in the except block) self._git.cmd("merge", "--abort"); sleep; continue
GitAbort(p) ==
    /\ pc[p] = "abort"
    /\ LET d == sy[p].repo IN
       \E ok \in GitCmdReturns :
        /\ Fault(~ok)
        /\ IF ok
           THEN /\ NextAttempt(p, Did(p, "abort"))
                /\ midMerge' = [midMerge EXCEPT ![d] = FALSE]
                /\ master' = [master EXCEPT ![d] = MergeAborted(d)]
           ELSE /\ Leave(p, Did(p, "abort"), "CalledProcessError", "abort", midMerge[d])
                /\ UNCHANGED <<midMerge, master>>
    /\ UNCHANGED <<marker, gaveUp, dirty, staged, dirState, cwd, sweepVars, trackVars>>
    /\ UNCHANGED <<tracking, clientRef, remote, clientId, clash, cronVars>>

\* A realign to the remote-tracking ref instead of master.
AlignedRefToRemote(d, id) == [name |-> id, at |-> tracking[d]]

\* git update-ref refs/heads/<client id> master: the ref of that name now
\* points to the tip of master.
AlignedRef(d, id) == [name |-> id, at |-> master[d]]

\* self._align_client_ref_to_master(self._git, self.client_id)
AlignClientRef(p) ==
    /\ pc[p] = "align"
    /\ \E ok \in GitCmdReturns :
        /\ Fault(~ok)
        /\ IF ok
           THEN /\ Goto(p, Did(p, "update-ref"), "push")
                /\ clientRef' = [clientRef EXCEPT ![sy[p].repo] = AlignedRef(sy[p].repo, sy[p].clientId)]
           ELSE /\ Leave(p, Did(p, "update-ref"), "CalledProcessError", "update-ref",
                         midMerge[sy[p].repo])
                /\ UNCHANGED clientRef
    /\ UNCHANGED <<marker, gaveUp, tree, dirState, cwd, sweepVars, trackVars>>
    /\ UNCHANGED <<master, tracking, remote, clientId, clash, cronVars>>

\* A push failure that leaves sync() as the exception of the git command.
PushFailureRaised(p, rec) ==
    Leave(p, rec, "CalledProcessError", "push", midMerge[sy[p].repo])

\* except CalledProcessError as e: (around the push) sleep; continue
AfterPushFailure(p, rec) == NextAttempt(p, rec)

\* try: self._git.cmd("push", "foolscrate", "master", self.client_id)
\* except CalledProcessError: sleep; continue      else: break, "Sync succeeded"
\* A push that is no fast-forward of the remote is rejected; an accepted one
\* moves the remote and the remote-tracking ref to master.
GitPush(p) ==
    /\ pc[p] = "push"
    /\ LET d == sy[p].repo IN
       \E ok \in GitCmdReturns :
        /\ IF PushAccepted(d) THEN Fault(~ok) ELSE ~ok /\ UNCHANGED faults
        /\ IF ok
           THEN /\ Leave(p, [Did(p, "push") EXCEPT !.pushed = TRUE], "ok", None, midMerge[d])
                /\ remote' = master[d]
                /\ tracking' = [tracking EXCEPT ![d] = master[d]]
           ELSE /\ AfterPushFailure(p, [Did(p, "push") EXCEPT !.pushed = TRUE])
                /\ UNCHANGED <<remote, tracking>>
    /\ UNCHANGED <<marker, gaveUp, tree, dirState, cwd, sweepVars, trackVars>>
    /\ UNCHANGED <<master, clientRef, clientId, clash, cronVars>>

\* for ... else: open(self._conflict_string, "w"); raise SyncError(self.localdir)
SyncGiveUp(p) ==
    /\ pc[p] = "exhausted"
    /\ marker' = [marker EXCEPT ![ConflictStringDir(p)] = TRUE]
    /\ gaveUp' = [gaveUp EXCEPT ![sy[p].repo] = TRUE]
    /\ Leave(p, [sy[p] EXCEPT !.createdMarker = TRUE], "SyncError", None, midMerge[sy[p].repo])
    /\ UNCHANGED <<tree, dirState, cwd, sweepVars, trackVars, faults>>
    /\ UNCHANGED <<gitVars, cronVars>>

\* ---------------------------------------------------------------- the user

\* The user resolves the divergence by hand and deletes the marker file.
RemoveMarker(d) ==
    /\ marker[d]
    /\ marker' = [marker EXCEPT ![d] = FALSE]
    /\ gaveUp' = [gaveUp EXCEPT ![d] = FALSE]
    /\ sy' = [p \in Procs |->
                IF sy[p].repo = d THEN [sy[p] EXCEPT !.markerSince = FALSE] ELSE sy[p]]
    /\ UNCHANGED <<tree, dirState, syncLock, sweepVars, trackVars, pc, cwd, faults>>
    /\ UNCHANGED <<gitVars, cronVars>>

\* ---------------------------------------------------------------- SyncAll

\* A process outside Procs that holds a lock file (a sync or a registry
\* command started by hand that hangs).
Ext == "ext"

SwNone == [tracked |-> <<>>, i |-> 0, results |-> <<>>, held |-> FALSE, read |-> FALSE,
           outcome |-> None]

\* Classes derived from Exception, which "except Exception" catches:
\* ValueError (also the one of the conflict check), CalledProcessError,
\* filelock.Timeout and SyncError; KeyboardInterrupt is not one of them.
ExceptionClasses == {"ValueError", "ConflictFound", "CalledProcessError", "Timeout", "SyncError"}

\* except SyncError: what the loop body would catch if it named one class.
CaughtOnlySyncError(exc) == exc = "SyncError"

\* except Exception as e: (around the body of the for loop)
CaughtInLoop(exc) == exc \in ExceptionClasses

\* A release that drops the lock file whoever holds it.
FleetLockForced(p) == None

\* A release at the end of the try block instead of the finally block.
FleetLockReleasedAtEnd(p) ==
    IF fleetLock = p /\ sw[p].outcome = "swept" THEN None ELSE fleetLock

\* finally: lock.release(): FileLock.release() of a lock object that does not
\* hold the lock does nothing.
FleetLockReleased(p) == IF fleetLock = p THEN None ELSE fleetLock

\* The registry file is missing or has no "track" key.
NoTrack == [hasKey |-> FALSE, track |-> <<>>]

\* The registry file with a list under "track".
Tracking(q) == [hasKey |-> TRUE, track |-> q]

Range(q) == {q[k] : k \in 1..Len(q)}
NoDup(q) == \A a \in 1..Len(q), b \in 1..Len(q) : q[a] = q[b] => a = b

\* All sequences over S without duplicates that hold every element of S.
Orders(S) == {q \in [1..Cardinality(S) -> S] : Range(q) = S}

\* shuffle(tracked): every order of the same entries.
Shuffles(q) == {r \in [1..Len(q) -> Range(q)] :
                   \A x \in Range(q) :
                       Cardinality({k \in 1..Len(q) : q[k] = x})
                     = Cardinality({k \in 1..Len(r) : r[k] = x})}

\* cfg.get("track", []): the empty list when the file or the key is missing.
TrackOf(cfg) == IF cfg.hasKey THEN cfg.track ELSE <<>>

\* sync_all_tracked(): lock = FileLock(self._syncall_lock_filepath); try:
SweepCall(p, wd) ==
    /\ pc[p] = "idle"
    /\ UNCHANGED faults
    /\ cwd' = [cwd EXCEPT ![p] = wd]
    /\ sw' = [sw EXCEPT ![p] = SwNone]
    /\ sy' = [sy EXCEPT ![p] = SyNone]
    /\ pc' = [pc EXCEPT ![p] = "sw_acquire"]
    /\ UNCHANGED <<marker, gaveUp, tree, dirState, syncLock, fleetLock, trackVars>>
    /\ UNCHANGED <<gitVars, cronVars>>

\* lock.acquire(timeout=1): the lock file is free.
SweepAcquire(p) ==
    /\ pc[p] = "sw_acquire"
    /\ fleetLock = None
    /\ fleetLock' = p
    /\ sw' = [sw EXCEPT ![p].held = TRUE]
    /\ pc' = [pc EXCEPT ![p] = "sw_enter"]
    /\ UNCHANGED <<marker, gaveUp, tree, dirState, syncLock, trackVars, cwd, sy, faults>>
    /\ UNCHANGED <<gitVars, cronVars>>

\* lock.acquire(timeout=1) raises Timeout; except Timeout: "execution skipped".
SweepBusy(p) ==
    /\ pc[p] = "sw_acquire"
    /\ fleetLock \notin {None, p}
    /\ sw' = [sw EXCEPT ![p].outcome = "skipped"]
    /\ pc' = [pc EXCEPT ![p] = "sw_finally"]
    /\ UNCHANGED <<marker, gaveUp, tree, dirState, syncLock, fleetLock, trackVars, cwd, sy, faults>>
    /\ UNCHANGED <<gitVars, cronVars>>

\* with self._config_broker.provide() as cfg: tracked = cfg.get("track", [])
\* (ConfigBroker.__enter__ takes the registry lock and reads the file,
\* __exit__ releases it); then shuffle(tracked).
SweepRead(p) ==
    /\ pc[p] = "sw_enter"
    /\ trackLock = None
    /\ \E order \in Shuffles(TrackOf(registry)) :
           sw' = [sw EXCEPT ![p].tracked = order, ![p].read = TRUE]
    /\ pc' = [pc EXCEPT ![p] = "sw_loop"]
    /\ UNCHANGED <<marker, gaveUp, tree, dirState, syncLock, fleetLock, trackVars, cwd, sy, faults>>
    /\ UNCHANGED <<gitVars, cronVars>>

\* ConfigBroker.__enter__: self._track_lock.acquire(timeout=60) raises
\* Timeout, which the except Timeout of sync_all_tracked catches.
SweepRegistryBusy(p) ==
    /\ pc[p] = "sw_enter"
    /\ trackLock \notin {None, p}
    /\ sw' = [sw EXCEPT ![p].outcome = "skipped"]
    /\ pc' = [pc EXCEPT ![p] = "sw_finally"]
    /\ UNCHANGED <<marker, gaveUp, tree, dirState, syncLock, fleetLock, trackVars, cwd, sy, faults>>
    /\ UNCHANGED <<gitVars, cronVars>>

\* What the loop does with the end of its body: log it and go on, or let the
\* exception leave through the finally block.
SweepHandle(p, rec, d, exc) ==
    IF exc = "ok" \/ CaughtInLoop(exc)
    THEN /\ sw' = [sw EXCEPT ![p] = [rec EXCEPT !.results = Append(@, <<d, exc>>)]]
         /\ pc' = [pc EXCEPT ![p] = "sw_loop"]
    ELSE /\ sw' = [sw EXCEPT ![p] = [rec EXCEPT !.results = Append(@, <<d, exc>>),
                                                !.outcome = exc]]
         /\ pc' = [pc EXCEPT ![p] = "sw_finally"]

\* for localdir in tracked: try: repo = Repository(localdir, self._config_broker)
SweepLoop(p) ==
    /\ pc[p] = "sw_loop"
    /\ IF sw[p].i < Len(sw[p].tracked)
       THEN LET d == sw[p].tracked[sw[p].i + 1]
                r == RepositoryInit(d)
                rec == [sw[p] EXCEPT !.i = @ + 1] IN
            IF r = "ok"
            THEN /\ sw' = [sw EXCEPT ![p] = rec]
                 /\ sy' = [sy EXCEPT ![p] = Constructed(d, "sweep")]
                 /\ pc' = [pc EXCEPT ![p] = "sw_sleep"]
            ELSE /\ SweepHandle(p, rec, d, r)
                 /\ UNCHANGED sy
       ELSE /\ sw' = [sw EXCEPT ![p].outcome = "swept"]
            /\ pc' = [pc EXCEPT ![p] = "sw_finally"]
            /\ UNCHANGED sy
    /\ UNCHANGED <<marker, gaveUp, tree, dirState, syncLock, fleetLock, trackVars, cwd, faults>>
    /\ UNCHANGED <<gitVars, cronVars>>

\* sleep(delay); repo.sync()
SweepSync(p) ==
    /\ pc[p] = "sw_sleep"
    /\ sy' = [sy EXCEPT ![p].markerSince = marker[sy[p].repo],
                         ![p].hadWork = dirty[sy[p].repo] \/ staged[sy[p].repo]]
    /\ pc' = [pc EXCEPT ![p] = "acquire"]
    /\ UNCHANGED <<marker, gaveUp, tree, dirState, syncLock, sweepVars, trackVars, cwd, faults>>
    /\ UNCHANGED <<gitVars, cronVars>>

\* The process is interrupted while it sleeps: KeyboardInterrupt is caught by
\* neither except clause and leaves through the finally block.
SweepInterrupt(p) ==
    /\ pc[p] = "sw_sleep"
    /\ sw' = [sw EXCEPT ![p].outcome = "KeyboardInterrupt"]
    /\ sy' = [sy EXCEPT ![p] = SyNone]
    /\ pc' = [pc EXCEPT ![p] = "sw_finally"]
    /\ UNCHANGED <<marker, gaveUp, tree, dirState, syncLock, fleetLock, trackVars, cwd, faults>>
    /\ UNCHANGED <<gitVars, cronVars>>

\* repo.sync() has returned ("synced") or raised.
SweepAfter(p) ==
    /\ pc[p] = "sw_after"
    /\ SweepHandle(p, sw[p], sy[p].repo, sy[p].outcome)
    /\ sy' = [sy EXCEPT ![p] = SyNone]
    /\ UNCHANGED <<marker, gaveUp, tree, dirState, syncLock, fleetLock, trackVars, cwd, faults>>
    /\ UNCHANGED <<gitVars, cronVars>>

\* finally: lock.release()
SweepFinally(p) ==
    /\ pc[p] = "sw_finally"
    /\ fleetLock' = FleetLockReleased(p)
    /\ pc' = [pc EXCEPT ![p] = "done"]
    /\ UNCHANGED <<marker, gaveUp, tree, dirState, syncLock, sw, trackVars, cwd, sy, faults>>
    /\ UNCHANGED <<gitVars, cronVars>>

\* ---------------------------------------------------------------- the registry

RgNone == [op |-> None, dir |-> None, cfg |-> NoTrack, outcome |-> None]

\* list.remove(x): the list without its first x.
RECURSIVE RemoveFirst(_, _)
RemoveFirst(q, x) ==
    IF q = <<>> THEN <<>>
    ELSE IF Head(q) = x THEN Tail(q)
    ELSE <<Head(q)>> \o RemoveFirst(Tail(q), x)

\* How often x occurs in q.
Count(q, x) == Cardinality({k \in 1..Len(q) : q[k] = x})

\* A track() that writes the appended list back as it is.
TrackedNoSet(cfg, d) == {Tracking(Append(TrackOf(cfg), d))}

\* track(): track = cfg.get("track", []); track.append(self.localdir);
\* cfg["track"] = list(set(track)): the entries once each, in any order.
Tracked(cfg, d) == {Tracking(q) : q \in Orders(Range(Append(TrackOf(cfg), d)))}

\* An untrack() that drops the last entry (list.pop()) whatever it is.
UntrackedPop(cfg, d) == Tracking(SubSeq(TrackOf(cfg), 1, Len(TrackOf(cfg)) - 1))

\* untrack(): cfg.setdefault("track", []).remove(self.localdir)
Untracked(cfg, d) == Tracking(RemoveFirst(TrackOf(cfg), d))

\* The newest two finished registry operations.
Remember(p, outcome) ==
    hist' = SubSeq(<<[op |-> rg[p].op, dir |-> rg[p].dir, by |-> p,
                      before |-> Range(TrackOf(rg[p].cfg)), outcome |-> outcome]>> \o hist,
                   1, IF Len(hist) = 0 THEN 1 ELSE 2)

\* A process calls track() or untrack() on its Repository for d:
\* with self._config_broker.provide() as cfg:
RegistryCall(p, op, d) ==
    /\ pc[p] = "idle"
    /\ RepositoryInit(d) = "ok"
    /\ rg' = [rg EXCEPT ![p] = [RgNone EXCEPT !.op = op, !.dir = d]]
    /\ pc' = [pc EXCEPT ![p] = "rg_enter"]
    /\ UNCHANGED <<marker, gaveUp, tree, dirState, syncLock, sweepVars, trackLock, registry,
                   hist, cwd, sy, faults>>
    /\ UNCHANGED <<gitVars, cronVars>>

\* An acquire that does not look at the lock file.
TrackLockIgnored(p) == TRUE

\* self._track_lock.acquire(timeout=60) returns: nobody holds the lock file.
TrackLockFree(p) == trackLock = None

\* A release that is skipped when the body of the with-block raised.
TrackLockReleasedOnSuccess(p) ==
    IF trackLock = p /\ rg[p].outcome = "ok" THEN None ELSE trackLock

\* ConfigBroker.__exit__: self._track_lock.release(), whether or not the body
\* of the with-block raised.
TrackLockReleased(p) == IF trackLock = p THEN None ELSE trackLock

\* ConfigBroker.__enter__: self._track_lock.acquire(timeout=60), then
\* ConfigObj(...) reads the file.
RegistryEnter(p) ==
    /\ pc[p] = "rg_enter"
    /\ TrackLockFree(p)
    /\ trackLock' = p
    /\ rg' = [rg EXCEPT ![p].cfg = registry]
    /\ pc' = [pc EXCEPT ![p] = "rg_body"]
    /\ UNCHANGED <<marker, gaveUp, tree, dirState, syncLock, sweepVars, registry, hist,
                   cwd, sy, faults>>
    /\ UNCHANGED <<gitVars, cronVars>>

\* ConfigBroker.__enter__: the lock was held for 60 seconds: Timeout.
RegistryBusy(p) ==
    /\ pc[p] = "rg_enter"
    /\ ~TrackLockFree(p)
    /\ rg' = [rg EXCEPT ![p].outcome = "Timeout"]
    /\ pc' = [pc EXCEPT ![p] = "idle"]
    /\ UNCHANGED <<marker, gaveUp, tree, dirState, syncLock, sweepVars, trackLock, registry,
                   hist, cwd, sy, faults>>
    /\ UNCHANGED <<gitVars, cronVars>>

\* The body of track(): ...; cfg.write()
TrackBody(p) ==
    /\ pc[p] = "rg_body"
    /\ rg[p].op = "track"
    /\ registry' \in Tracked(rg[p].cfg, rg[p].dir)
    /\ rg' = [rg EXCEPT ![p].outcome = "ok"]
    /\ Remember(p, "ok")
    /\ pc' = [pc EXCEPT ![p] = "rg_exit"]
    /\ UNCHANGED <<marker, gaveUp, tree, dirState, syncLock, sweepVars, trackLock, cwd, sy, faults>>
    /\ UNCHANGED <<gitVars, cronVars>>

\* The body of untrack(): list.remove raises ValueError when the path is not
\* in the list, before cfg.write().
UntrackBody(p) ==
    /\ pc[p] = "rg_body"
    /\ rg[p].op = "untrack"
    /\ IF rg[p].dir \in Range(TrackOf(rg[p].cfg))
       THEN /\ registry' = Untracked(rg[p].cfg, rg[p].dir)
            /\ rg' = [rg EXCEPT ![p].outcome = "ok"]
            /\ Remember(p, "ok")
       ELSE /\ UNCHANGED registry
            /\ rg' = [rg EXCEPT ![p].outcome = "ValueError"]
            /\ Remember(p, "ValueError")
    /\ pc' = [pc EXCEPT ![p] = "rg_exit"]
    /\ UNCHANGED <<marker, gaveUp, tree, dirState, syncLock, sweepVars, trackLock, cwd, sy, faults>>
    /\ UNCHANGED <<gitVars, cronVars>>

\* ConfigBroker.__exit__: self._track_lock.release()
RegistryExit(p) ==
    /\ pc[p] = "rg_exit"
    /\ trackLock' = TrackLockReleased(p)
    /\ pc' = [pc EXCEPT ![p] = "idle"]
    /\ UNCHANGED <<marker, gaveUp, tree, dirState, syncLock, sweepVars, registry, rg, hist,
                   cwd, sy, faults>>
    /\ UNCHANGED <<gitVars, cronVars>>

\* cleanup_tracked(): with self._config_broker() as cfg: the broker is a
\* ConfigBroker object, which has no __call__: TypeError before any lock is
\* taken or any file is read.
CleanupTracked(p) ==
    /\ pc[p] = "idle"
    /\ rg' = [rg EXCEPT ![p] = [RgNone EXCEPT !.op = "cleanup", !.cfg = registry,
                                              !.outcome = "TypeError"]]
    /\ hist' = SubSeq(<<[op |-> "cleanup", dir |-> None, by |-> p,
                         before |-> Range(TrackOf(registry)), outcome |-> "TypeError"]>>
                      \o hist, 1, IF Len(hist) = 0 THEN 1 ELSE 2)
    /\ UNCHANGED <<marker, gaveUp, tree, dirState, syncLock, sweepVars, trackLock, registry,
                   pc, cwd, sy, faults>>
    /\ UNCHANGED <<gitVars, cronVars>>

\* ---------------------------------------------------------------- first-time configuration

\* Positions inside _configure_repository.
ConfigurePCs == {"cfg_id", "cfg_align", "cfg_push", "cfg_track"}

\* create_new() / connect_existing() has raised.
ConfigureRaised(p, exc, step) ==
    /\ sy' = [sy EXCEPT ![p] = [@ EXCEPT !.outcome = exc, !.failedStep = step]]
    /\ pc' = [pc EXCEPT ![p] = "done"]

\* create_new(local_directory, remote_url, config_broker) and
\* connect_existing(...), up to the call of _configure_repository:
\* ValueError("Preexisting git repo found") if .git exists; else git init and
\* remote add, and then either the commit of .gitignore (create_new) or
\* fetch --all and checkout master (connect_existing).
CreateRepository(p, d, how) ==
    /\ pc[p] = "idle"
    /\ IF dirState[d] \in {"ok", "noid"}
       THEN /\ sy' = [sy EXCEPT ![p] = [SyNone EXCEPT !.repo = d, !.caller = how,
                                                      !.outcome = "ValueError",
                                                      !.failedStep = "init"]]
            /\ pc' = [pc EXCEPT ![p] = "done"]
            /\ UNCHANGED <<dirState, master, tracking, faults>>
       ELSE \E ok \in GitCmdReturns :
            /\ Fault(~ok)
            /\ dirState' = [dirState EXCEPT ![d] = "noid"]
            /\ IF ok
               THEN /\ sy' = [sy EXCEPT ![p] = [SyNone EXCEPT !.repo = d, !.caller = how]]
                    /\ pc' = [pc EXCEPT ![p] = "cfg_id"]
                    /\ master' = [master EXCEPT ![d] = IF how = "create_new" THEN {} ELSE remote]
                    /\ tracking' = [tracking EXCEPT ![d] = IF how = "create_new" THEN {} ELSE remote]
               ELSE /\ sy' = [sy EXCEPT ![p] = [SyNone EXCEPT !.repo = d, !.caller = how,
                                                              !.outcome = "CalledProcessError",
                                                              !.failedStep = "init"]]
                    /\ pc' = [pc EXCEPT ![p] = "done"]
                    /\ UNCHANGED <<master, tracking>>
    /\ UNCHANGED <<marker, gaveUp, tree, syncLock, sweepVars, trackVars, cwd>>
    /\ UNCHANGED <<clientRef, remote, clientId, clash, cronVars>>

\* client_id = cls._configure_client_id(git): a new id, written with
\* git config --local foolscrate.client-id
ConfigureClientId(p) ==
    /\ pc[p] = "cfg_id"
    /\ \E id \in ClientIds, ok \in GitCmdReturns :
        /\ Fault(~ok)
        /\ IF ok
           THEN /\ clientId' = [clientId EXCEPT ![sy[p].repo] = id]
                /\ dirState' = [dirState EXCEPT ![sy[p].repo] = "ok"]
                /\ sy' = [sy EXCEPT ![p].clientId = id]
                /\ pc' = [pc EXCEPT ![p] = "cfg_align"]
           ELSE /\ ConfigureRaised(p, "CalledProcessError", "config")
                /\ UNCHANGED <<clientId, dirState>>
    /\ UNCHANGED <<marker, gaveUp, tree, syncLock, sweepVars, trackVars, cwd>>
    /\ UNCHANGED <<refs, clash, cronVars>>

\* cls._align_client_ref_to_master(git, client_id)
ConfigureAlign(p) ==
    /\ pc[p] = "cfg_align"
    /\ \E ok \in GitCmdReturns :
        /\ Fault(~ok)
        /\ IF ok
           THEN /\ clientRef' = [clientRef EXCEPT ![sy[p].repo] = AlignedRef(sy[p].repo, sy[p].clientId)]
                /\ sy' = [sy EXCEPT ![p] = Did(p, "update-ref")]
                /\ pc' = [pc EXCEPT ![p] = "cfg_push"]
           ELSE /\ ConfigureRaised(p, "CalledProcessError", "update-ref")
                /\ UNCHANGED clientRef
    /\ UNCHANGED <<marker, gaveUp, tree, dirState, syncLock, sweepVars, trackVars, cwd>>
    /\ UNCHANGED <<master, tracking, remote, clientId, clash, cronVars>>

\* git.cmd("push", "-u", "foolscrate", "master", client_id): not in a try block.
ConfigurePush(p) ==
    /\ pc[p] = "cfg_push"
    /\ LET d == sy[p].repo IN
       \E ok \in GitCmdReturns :
        /\ IF PushAccepted(d) THEN Fault(~ok) ELSE ~ok /\ UNCHANGED faults
        /\ IF ok
           THEN /\ remote' = master[d]
                /\ tracking' = [tracking EXCEPT ![d] = master[d]]
                /\ sy' = [sy EXCEPT ![p] = [Did(p, "push") EXCEPT !.pushed = TRUE]]
                /\ pc' = [pc EXCEPT ![p] = "cfg_track"]
           ELSE /\ ConfigureRaised(p, "CalledProcessError", "push")
                /\ UNCHANGED <<remote, tracking>>
    /\ UNCHANGED <<marker, gaveUp, tree, dirState, syncLock, sweepVars, trackVars, cwd>>
    /\ UNCHANGED <<master, clientRef, clientId, clash, cronVars>>

\* repo = cls(local_directory, config_broker=config_broker); repo.track()
ConfigureTrack(p) ==
    /\ pc[p] = "cfg_track"
    /\ LET r == RepositoryInit(sy[p].repo) IN
        IF r = "ok"
        THEN /\ rg' = [rg EXCEPT ![p] = [RgNone EXCEPT !.op = "track", !.dir = sy[p].repo]]
             /\ sy' = [sy EXCEPT ![p].outcome = "ok"]
             /\ pc' = [pc EXCEPT ![p] = "rg_enter"]
        ELSE /\ ConfigureRaised(p, r, "init")
             /\ UNCHANGED rg
    /\ UNCHANGED <<marker, gaveUp, tree, dirState, syncLock, sweepVars, trackLock, registry,
                   hist, cwd, faults>>
    /\ UNCHANGED <<gitVars, cronVars>>

\* ---------------------------------------------------------------- the cron job

\* Most characters of a crontab the model starts from, and most calls of
\* enable_foolscrate_cronjob() in one behaviour.
MaxCronLen == 4
MaxInstalls == 2

\* A crontab is a text, and a text is a sequence of pieces: "start" and "end"
\* are FOOLSCRATE_CRONTAB_COMMENT + " start" and + " end", "nl" is "\n", "job"
\* is the text of the sync_all_tracked line, "x" and "y" are any other text
\* without a newline.
CronPieces == {"start", "end", "nl", "x", "y"}

\* The user has no crontab: crontab -l exits non-zero.
NoCrontab == [exists |-> FALSE, text |-> <<>>]

\* cron_start = "{} start\n".format(cls.FOOLSCRATE_CRONTAB_COMMENT)
cron_start == <<"start", "nl">>

\* cron_end = "{} end\n".format(cls.FOOLSCRATE_CRONTAB_COMMENT)
cron_end == <<"end", "nl">>

\* The text t has the text w at position k.
HasAt(t, k, w) == k >= 1 /\ k + Len(w) - 1 <= Len(t) /\ SubSeq(t, k, k + Len(w) - 1) = w

\* The positions after a cron_start at the head of t where a cron_end begins.
EndsAfterStart(t) == {k \in (Len(cron_start) + 1)..Len(t) : HasAt(t, k, cron_end)}

Least(S) == CHOOSE k \in S : \A j \in S : k <= j

\* cron_pattern = re_compile("{}.*?{}".format(cron_start, cron_end), RE_DOTALL)
\* cron_pattern.sub("", old_crontab): from left to right, each cron_start that
\* has a cron_end somewhere after it is taken out together with everything up
\* to the nearest such cron_end.
RECURSIVE cron_pattern_sub(_)
cron_pattern_sub(t) ==
    IF t = <<>> THEN <<>>
    ELSE IF HasAt(t, 1, cron_start) /\ EndsAfterStart(t) # {}
    THEN cron_pattern_sub(SubSeq(t, Least(EndsAfterStart(t)) + Len(cron_end), Len(t)))
    ELSE <<Head(t)>> \o cron_pattern_sub(Tail(t))

\* if len(old_crontab) > 0 and (old_crontab[-1] != "\n"): old_crontab += "\n"
NewlineEnded(t) == IF Len(t) > 0 /\ t[Len(t)] # "nl" THEN Append(t, "nl") ELSE t

\* new_crontab = old_crontab + cron_start + "*/1 * * * * LANG=... sync_all_tracked\n"
\*               + cron_end
new_crontab(old) == NewlineEnded(cron_pattern_sub(old)) \o cron_start \o <<"job", "nl">> \o cron_end

\* enable_foolscrate_cronjob(): ValueError if the executable cannot be read
\* and run; old_crontab is the output of crontab -l, or "" when that fails;
\* crontab <tempfile> installs the new text, or raises and installs nothing.
EnableCronjob ==
    /\ Len(cronLog) < MaxInstalls
    /\ \E executable \in BOOLEAN, installs \in GitCmdReturns :
        LET old == IF crontab.exists THEN crontab.text ELSE <<>>
            outcome == IF ~executable THEN "ValueError"
                       ELSE IF installs THEN "ok" ELSE "CalledProcessError"
            after == IF outcome = "ok" THEN [exists |-> TRUE, text |-> new_crontab(old)]
                     ELSE crontab
        IN /\ crontab' = after
           /\ cronLog' = Append(cronLog, [before |-> crontab, after |-> after,
                                          outcome |-> outcome])
    /\ UNCHANGED <<marker, gaveUp, tree, dirState, syncLock, sweepVars, trackVars, pc, cwd, sy,
                   faults, gitVars>>

\* ---------------------------------------------------------------- specifications


InitProcs ==
    /\ pc = [p \in Procs |-> "idle"]
    /\ cwd = [p \in Procs |-> Home]
    /\ sy = [p \in Procs |-> SyNone]
    /\ sw = [p \in Procs |-> SwNone]
    /\ rg = [p \in Procs |-> RgNone]
    /\ hist = <<>>

\* Nobody has called enable_foolscrate_cronjob() and the user has no crontab.
InitNoCron ==
    /\ crontab = NoCrontab
    /\ cronLog = <<>>

\* The configured replicas (those with a client id) hold the history hist of
\* the remote, their client ref aligned by the configuration; their edits, if
\* any, are not committed yet.
InitRefs(ids, h) ==
    /\ remote = h
    /\ clientId = ids
    /\ master = [d \in Replicas |-> IF ids[d] # None THEN h ELSE {}]
    /\ tracking = [d \in Replicas |-> IF ids[d] # None THEN h ELSE {}]
    /\ clientRef = [d \in Replicas |-> IF ids[d] # None THEN AlignedRef(d, ids[d]) ELSE NoRef]

\* The client ids of the replicas whose directory is a configured repository.
IdsOf(states) ==
    [d \in Replicas |-> IF states[d] = "ok" THEN (IF d = "r1" THEN "c1" ELSE "c2") ELSE None]

InitCommon ==
    /\ midMerge = [d \in Replicas |-> FALSE]
    /\ staged = [d \in Replicas |-> FALSE]
    /\ gaveUp = [d \in Replicas |-> FALSE]
    /\ syncLock = [d \in Dirs |-> None]
    /\ fleetLock = None
    /\ trackLock = None
    /\ InitProcs
    /\ faults = 0

\* Direct sync() calls on configured replicas; one replica may carry a marker
\* from an earlier run.
InitSync ==
    /\ InitCommon
    /\ marker \in [Replicas -> BOOLEAN]
    /\ dirty \in [Replicas -> BOOLEAN]
    /\ \A d \in Replicas \ SyncTargets : ~dirty[d]
    /\ dirState = [d \in Replicas |-> "ok"]
    /\ registry = NoTrack
    /\ clash = FALSE
    /\ InitRefs(IdsOf(dirState), {})
    /\ InitNoCron

SyncStep(p) ==
    \/ SyncAcquire(p) \/ SyncLockTimeout(p) \/ SyncCheck(p)
    \/ GitFetch(p) \/ GitAdd(p) \/ GitDiff(p) \/ GitCommit(p)
    \/ GitMerge(p) \/ GitAbort(p) \/ AlignClientRef(p) \/ GitPush(p)
    \/ SyncGiveUp(p)

NextSync ==
    \/ \E p \in Procs, d \in SyncTargets, wd \in Dirs : SyncMain(p, d, wd)
    \/ \E p \in Procs : SyncStep(p)
    \/ \E d \in Replicas : RemoveMarker(d)

SpecSync == InitSync /\ [][NextSync]_vars

\* Sweeps over a registry that earlier track() calls wrote (no duplicates).
\* The replicas outside SyncTargets have vanished or lost their client id
\* since; a process outside Procs may sit on one of the lock files.
InitSweep ==
    /\ midMerge = [d \in Replicas |-> FALSE]
    /\ staged = [d \in Replicas |-> FALSE]
    /\ gaveUp = [d \in Replicas |-> FALSE]
    /\ fleetLock = None
    /\ \E held \in {None, "registry"} \cup SyncTargets :
           /\ syncLock = [d \in Dirs |-> IF d = held THEN Ext ELSE None]
           /\ trackLock = IF held = "registry" THEN Ext ELSE None
    /\ InitProcs
    /\ faults = 0
    /\ marker \in [Replicas -> BOOLEAN]
    /\ dirty \in [Replicas -> BOOLEAN]
    /\ \A d \in Replicas \ SyncTargets : ~marker[d] /\ ~dirty[d]
    /\ dirState \in [Replicas -> {"ok", "noid", "gone"}]
    /\ \A d \in Replicas : dirState[d] = "ok" <=> d \in SyncTargets
    /\ registry \in {NoTrack} \cup {Tracking(q) : q \in UNION {Orders(S) : S \in SUBSET Replicas}}
    /\ clash = FALSE
    /\ InitRefs(IdsOf(dirState), {})
    /\ InitNoCron

SweepStep(p) ==
    \/ SweepAcquire(p) \/ SweepBusy(p) \/ SweepRead(p) \/ SweepRegistryBusy(p)
    \/ SweepLoop(p) \/ SweepSync(p) \/ SweepInterrupt(p) \/ SweepAfter(p)
    \/ SweepFinally(p)

NextSweep ==
    \/ \E p \in Procs, wd \in Dirs : SweepCall(p, wd)
    \/ \E p \in Procs : SweepStep(p)
    \/ \E p \in Procs : SyncStep(p)

SpecSweep == InitSweep /\ [][NextSweep]_vars

\* Registry commands on configured replicas, from an absent or empty registry.
InitTrack ==
    /\ InitCommon
    /\ marker = [d \in Replicas |-> FALSE]
    /\ dirty = [d \in Replicas |-> FALSE]
    /\ dirState = [d \in Replicas |-> "ok"]
    /\ registry \in {NoTrack, Tracking(<<>>)}
    /\ clash = FALSE
    /\ InitRefs(IdsOf(dirState), {})
    /\ InitNoCron

NextTrack ==
    \/ \E p \in Procs, op \in {"track", "untrack"}, d \in Replicas : RegistryCall(p, op, d)
    \/ \E p \in Procs : RegistryEnter(p)
    \/ \E p \in Procs : RegistryBusy(p)
    \/ \E p \in Procs : TrackBody(p)
    \/ \E p \in Procs : UntrackBody(p)
    \/ \E p \in Procs : RegistryExit(p)
    \/ \E p \in Procs : CleanupTracked(p)

SpecTrack == InitTrack /\ [][NextTrack]_vars

\* Two replicas of one remote and no failure of a git command but those the
\* histories dictate (a push that is no fast-forward, a merge of clashing
\* edits). r1 is configured; r2 is configured or still a plain directory. At
\* most one replica has pushed its edit already, which the other has not
\* fetched; an edit that is not pushed may wait uncommitted in the tree.
InitShared ==
    /\ midMerge = [d \in Replicas |-> FALSE]
    /\ staged = [d \in Replicas |-> FALSE]
    /\ gaveUp = [d \in Replicas |-> FALSE]
    /\ marker = [d \in Replicas |-> FALSE]
    /\ syncLock = [d \in Dirs |-> None]
    /\ fleetLock = None
    /\ trackLock \in {None, Ext}
    /\ registry = NoTrack
    /\ InitProcs
    /\ faults = MaxFaults
    /\ InitNoCron
    /\ clash \in BOOLEAN
    /\ dirState \in [Replicas -> {"ok", "plain"}]
    /\ dirState["r1"] = "ok"
    /\ clientId = IdsOf(dirState)
    /\ remote \in {{}} \cup {{d} : d \in {e \in Replicas : dirState[e] = "ok"}}
    /\ master = [d \in Replicas |-> remote \cap {d}]
    /\ tracking = master
    /\ clientRef = [d \in Replicas |-> IF clientId[d] # None THEN AlignedRef(d, clientId[d])
                                       ELSE NoRef]
    /\ dirty \in [Replicas -> BOOLEAN]
    /\ \A d \in Replicas : d \in remote => ~dirty[d]

\* A create_new() or connect_existing() of replica d is under way.
Configuring(d) == \E q \in Procs : pc[q] \in ConfigurePCs /\ sy[q].repo = d

\* The user runs sync by hand inside the replica, and not while the replica
\* is being configured.
NextShared ==
    \/ \E p \in Procs, d \in Replicas : ~Configuring(d) /\ SyncMain(p, d, d)
    \/ \E p \in Procs : SyncStep(p)
    \/ \E p \in Procs, how \in {"create_new", "connect_existing"} :
           CreateRepository(p, "r2", how)
    \/ \E p \in Procs : ConfigureClientId(p)
    \/ \E p \in Procs : ConfigureAlign(p)
    \/ \E p \in Procs : ConfigurePush(p)
    \/ \E p \in Procs : ConfigureTrack(p)
    \/ \E p \in Procs : RegistryEnter(p)
    \/ \E p \in Procs : RegistryBusy(p)
    \/ \E p \in Procs : TrackBody(p)
    \/ \E p \in Procs : RegistryExit(p)

SpecShared == InitShared /\ [][NextShared]_vars

\* All texts of at most n pieces.
Texts(n) == UNION {[1..k -> CronPieces] : k \in 0..n}

\* Calls of enable_foolscrate_cronjob() on any short crontab, or on none; the
\* replicas are left alone.
InitCron ==
    /\ InitCommon
    /\ marker = [d \in Replicas |-> FALSE]
    /\ dirty = [d \in Replicas |-> FALSE]
    /\ dirState = [d \in Replicas |-> "ok"]
    /\ registry = NoTrack
    /\ clash = FALSE
    /\ InitRefs(IdsOf(dirState), {})
    /\ cronLog = <<>>
    /\ crontab \in {NoCrontab} \cup {[exists |-> TRUE, text |-> t] : t \in Texts(MaxCronLen)}

NextCron == EnableCronjob

SpecCron == InitCron /\ [][NextCron]_vars

\* ---------------------------------------------------------------- properties of sync()

HasStep(p, step) == \E k \in 1..Len(sy[p].steps) : sy[p].steps[k] = step

\* sync() has returned or raised.
Returned(p) == pc[p] = "done" /\ sy[p].outcome # None

\* C1: a sync() called while the marker file of its replica exists (and stays)
\* issues no git command and never enters the attempt loop, and when it ends
\* it has failed with the conflict error (or, at the latest, with the lock
\* timeout that precedes the check), whatever the working directory is.
C1_MarkerRefuses ==
    \A p \in Procs :
        sy[p].markerSince =>
            /\ ~sy[p].vcsUsed
            /\ ~InLoop(p)
            /\ Returned(p) => sy[p].outcome \in {"ConflictFound", "Timeout"}

\* C2: after a sync() of a replica gave up, and until the marker is removed,
\* no sync() of that replica is inside the attempt loop.
C2_GaveUpStaysOff ==
    \A p \in Procs : InLoop(p) => ~gaveUp[sy[p].repo]

\* C3: a sync() whose merge failed in each of five attempts has ended with
\* SyncError and the marker file created, has issued no push and has left no
\* merge in progress.
C3_FiveMergeFailures ==
    \A p \in Procs :
        (/\ Returned(p)
         /\ sy[p].attempt = MaxAttempts
         /\ sy[p].onlyMergeFails
         /\ HasStep(p, "abort"))
        => /\ sy[p].outcome = "SyncError"
           /\ sy[p].createdMarker
           /\ ~sy[p].pushed
           /\ ~sy[p].leftMidMerge

\* C4: no failure of the fetch, the merge, the abort or the push leaves sync()
\* as an exception of the git command.
C4_RetryableContained ==
    \A p \in Procs :
        sy[p].outcome = "CalledProcessError" =>
            sy[p].failedStep \notin {"fetch", "merge", "abort", "push"}

\* C5: a sync() is in the check or in the attempt loop only while it holds the
\* lock file of its replica, so no two are in the loop of one replica; before
\* it has the lock it has issued nothing; one that timed out on the lock has
\* issued no git command and created no marker.
C5_OneSyncPerReplica ==
    \A p \in Procs :
        /\ (pc[p] = "check" \/ InLoop(p)) => syncLock[sy[p].repo] = p
        /\ \A q \in Procs \ {p} :
               ~(InLoop(p) /\ InLoop(q) /\ sy[p].repo = sy[q].repo)
        /\ pc[p] = "acquire" => ~sy[p].vcsUsed /\ sy[p].attempt = 0
        /\ sy[p].outcome = "Timeout" =>
               /\ ~sy[p].vcsUsed
               /\ ~sy[p].createdMarker
               /\ sy[p].attempt = 0

\* One sync() is in the loop while a second one of the same replica has
\* timed out on the lock.
C5_Witness ==
    \E p \in Procs, q \in Procs :
        /\ p # q
        /\ InLoop(p)
        /\ Returned(q)
        /\ sy[q].outcome = "Timeout"
        /\ sy[q].repo = sy[p].repo

\* ---------------------------------------------------------------- properties of the sweep

\* Between the acquisition of the fleet lock and the end of the for loop:
\* reading the registry, building Repository objects, syncing.
InSweepPhase(p) ==
    \/ pc[p] \in {"sw_enter", "sw_loop", "sw_sleep", "sw_after"}
    \/ sy[p].caller = "sweep" /\ (pc[p] \in {"acquire", "check"} \/ InLoop(p))

\* C6: a sync_all_tracked() is in its sweep phase only while it holds the
\* fleet lock, so no two are; the one that is skipped returns without an
\* error, has read nothing and has built and synced no Repository, and its
\* lock.release() leaves the lock with its holder.
C6_OneSweep ==
    \A p \in Procs :
        /\ InSweepPhase(p) => fleetLock = p
        /\ \A q \in Procs \ {p} : ~(InSweepPhase(p) /\ InSweepPhase(q))
        /\ (pc[p] \in {"sw_finally", "done"} /\ ~sw[p].held) =>
               /\ sw[p].outcome = "skipped"
               /\ ~sw[p].read
               /\ sw[p].i = 0
               /\ sw[p].results = <<>>
               /\ sy[p] = SyNone

\* A skipped sweep has returned while the other one still sweeps.
C6_Witness ==
    \E p \in Procs, q \in Procs :
        /\ p # q
        /\ InSweepPhase(p)
        /\ Len(sw[p].results) > 0
        /\ pc[q] = "done"
        /\ ~sw[q].held
        /\ sw[q].outcome = "skipped"

\* C7: a sync_all_tracked() that has read the tracked set and was not
\* interrupted returns normally with exactly one attempt for every path it
\* read, in the order of the shuffle, whatever the earlier attempts gave.
C7_EveryPathOnce ==
    \A p \in Procs :
        (pc[p] = "done" /\ sw[p].read /\ sw[p].outcome # "KeyboardInterrupt") =>
            /\ sw[p].outcome = "swept"
            /\ Len(sw[p].results) = Len(sw[p].tracked)
            /\ \A k \in 1..Len(sw[p].tracked) : sw[p].results[k][1] = sw[p].tracked[k]
            /\ \A d \in Range(sw[p].tracked) :
                   Cardinality({k \in 1..Len(sw[p].results) : sw[p].results[k][1] = d}) = 1

\* A sweep of two paths has ended; the first attempt failed with SyncError,
\* the second was made all the same.
C7_Witness ==
    \E p \in Procs :
        /\ pc[p] = "done"
        /\ sw[p].outcome = "swept"
        /\ Len(sw[p].results) = 2
        /\ sw[p].results[1][2] = "SyncError"
        /\ sw[p].results[2][2] \in ExceptionClasses

\* C8: a sync_all_tracked() holds the fleet lock only between its acquire and
\* its finally block: once it has returned, however it ended, the lock is
\* not its own any more, and with every sweep returned the lock is free.
C8_FleetLockReleased ==
    /\ \A p \in Procs : fleetLock = p => (sw[p].held /\ pc[p] \notin {"idle", "sw_acquire", "done"})
    /\ (\A p \in Procs : pc[p] \in {"idle", "done"}) => fleetLock = None

\* A sweep that had the lock was interrupted and has returned; a later sweep
\* holds the lock.
C8_Witness ==
    \E p \in Procs, q \in Procs :
        /\ p # q
        /\ pc[p] = "done"
        /\ sw[p].held
        /\ sw[p].outcome = "KeyboardInterrupt"
        /\ fleetLock = q

\* ---------------------------------------------------------------- properties of the registry

\* C9: the track list in the registry holds no path twice, and right after a
\* track() it holds the path of that replica exactly once.
C9_NoDuplicates ==
    /\ NoDup(TrackOf(registry))
    /\ (Len(hist) >= 1 /\ hist[1].op = "track") =>
           Count(TrackOf(registry), hist[1].dir) = 1

\* The last two registry operations were track() on the same replica.
C9_Witness ==
    /\ Len(hist) = 2
    /\ hist[1].op = "track"
    /\ hist[2].op = "track"
    /\ hist[1].dir = hist[2].dir
    /\ Count(TrackOf(registry), hist[1].dir) = 1
    /\ Len(TrackOf(registry)) = 2

\* The last two registry operations were track() and then untrack() on one
\* replica whose path was not tracked before.
TrackThenUntrack ==
    /\ Len(hist) = 2
    /\ hist[2].op = "track"
    /\ hist[1].op = "untrack"
    /\ hist[1].dir = hist[2].dir
    /\ hist[2].dir \notin hist[2].before

\* C10: track() followed by untrack() on a replica that was not tracked
\* leaves the set of tracked paths as it was before the two calls.
C10_TrackUntrack ==
    TrackThenUntrack =>
        /\ hist[1].outcome = "ok"
        /\ Range(TrackOf(registry)) = hist[2].before
        /\ hist[2].before = {} => TrackOf(registry) = <<>>

\* The case with another path tracked before, and after.
C10_Witness ==
    /\ TrackThenUntrack
    /\ hist[2].before # {}
    /\ Range(TrackOf(registry)) = hist[2].before

\* C11: an untrack() of a path that is not in the track list it read raises
\* (ValueError of list.remove) and never ends well; while it leaves the
\* with-block the registry file is what it read, nothing having been written;
\* once it has returned it does not hold the registry lock.
C11_UntrackAbsent ==
    \A p \in Procs :
        /\ (rg[p].op = "untrack" /\ pc[p] \in {"rg_exit", "idle"}
               /\ rg[p].outcome # "Timeout"
               /\ rg[p].dir \notin Range(TrackOf(rg[p].cfg)))
           => rg[p].outcome = "ValueError"
        /\ (rg[p].op = "untrack" /\ rg[p].outcome = "ValueError") =>
               /\ rg[p].dir \notin Range(TrackOf(rg[p].cfg))
               /\ pc[p] = "rg_exit" => (trackLock = p /\ registry = rg[p].cfg)
               /\ pc[p] = "idle" => trackLock # p
        /\ (Len(hist) >= 1 /\ hist[1].op = "untrack" /\ hist[1].outcome = "ValueError") =>
               Range(TrackOf(registry)) = hist[1].before

\* An untrack() of a path that is not tracked has failed and returned while
\* another path is tracked; the lock is free again.
C11_Witness ==
    \E p \in Procs :
        /\ rg[p].op = "untrack"
        /\ rg[p].outcome = "ValueError"
        /\ pc[p] = "idle"
        /\ trackLock = None
        /\ Len(hist) >= 1 /\ hist[1].op = "untrack" /\ hist[1].by = p
        /\ TrackOf(registry) # <<>>
        /\ rg[p].dir \notin Range(TrackOf(registry))

\* What the registry file holds after the operation op on d is applied to cfg.
Applied(op, cfg, d) ==
    CASE op = "track" -> Tracked(cfg, d)
      [] op = "untrack" -> {Untracked(cfg, d)}
      [] OTHER -> {cfg}

\* C12: a process is between the read and the end of a registry operation only
\* while it holds the registry lock, so no two are; what it read is still what
\* the file holds; and every change of the file is one whole track() or
\* untrack() applied to the file as it was just before (the operations take
\* effect one after the other, none is lost); cleanup_tracked() changes nothing.
C12_RegistrySerial ==
    [][ /\ \A p \in Procs :
             pc[p] \in {"rg_body", "rg_exit"} =>
                 /\ trackLock = p
                 /\ pc[p] = "rg_body" => rg[p].cfg = registry
                 /\ \A q \in Procs \ {p} : pc[q] \notin {"rg_body", "rg_exit"}
        /\ registry' # registry =>
             \E p \in Procs :
                 /\ pc[p] = "rg_body" /\ pc'[p] = "rg_exit"
                 /\ rg[p].op \in {"track", "untrack"}
                 /\ registry' \in Applied(rg[p].op, registry, rg[p].dir)
                 /\ rg[p].op = "track" => rg[p].dir \in Range(TrackOf(registry'))
                 /\ rg[p].op = "untrack" => rg[p].dir \notin Range(TrackOf(registry'))
      ]_vars

\* One process is about to write its untrack() while the other, whose earlier
\* operation was the last to finish, waits for the registry lock with a track().
C12_Witness ==
    \E p \in Procs, q \in Procs :
        /\ p # q
        /\ pc[p] = "rg_body" /\ rg[p].op = "untrack"
        /\ pc[q] = "rg_enter" /\ rg[q].op = "track"
        /\ rg[p].dir \in Range(TrackOf(registry))
        /\ Len(hist) >= 1 /\ hist[1].by = q

\* ---------------------------------------------------------------- properties of one attempt

IsPrefix(a, b) == Len(a) <= Len(b) /\ \A k \in 1..Len(a) : a[k] = b[k]

\* The git commands of one whole attempt of the sync() of p, given what its
\* diff printed and how its merge ended.
WholeAttempt(p) ==
    <<"fetch", "add", "diff">>
    \o (IF sy[p].staging = "changes" THEN <<"commit">> ELSE <<>>)
    \o <<"merge">>
    \o (IF sy[p].merged THEN <<"update-ref", "push">> ELSE <<"abort">>)

\* C18: the git commands a sync() has issued in its current attempt are a
\* beginning of fetch, add, diff, commit, merge, update-ref, push, in which
\* the commit is left out exactly when the staged diff was empty, and in
\* which update-ref and push follow a merge that went through (the abort one
\* that did not); a sync() that returned well has issued the whole of it.
C18_StepOrder ==
    \A p \in Procs :
        /\ IsPrefix(sy[p].steps, WholeAttempt(p))
        /\ sy[p].outcome = "ok" => (sy[p].steps = WholeAttempt(p) /\ sy[p].merged)
        /\ pc[p] \in {"align", "push"} => sy[p].merged
        /\ pc[p] \in {"merge", "abort", "align", "push"} => sy[p].staging # None

\* A sync() has returned well from a second attempt whose staged diff was
\* empty: fetch, add, diff, merge, update-ref, push.
C18_Witness ==
    \E p \in Procs :
        /\ Returned(p)
        /\ sy[p].outcome = "ok"
        /\ sy[p].attempt = 2
        /\ sy[p].hadWork
        /\ sy[p].steps = <<"fetch", "add", "diff", "merge", "update-ref", "push">>

\* ---------------------------------------------------------------- properties of the histories

\* The sync() of p has got past the add/diff/commit of one attempt.
PastCommit(p) ==
    /\ sy[p].repo # None
    /\ \/ sy[p].attempt >= 2
       \/ pc[p] \in {"merge", "abort", "align", "push", "exhausted"}
       \/ HasStep(p, "merge")

\* C20: from the moment a sync() has got past the commit step of an attempt,
\* and for good, the history of the local master holds the edit that was
\* uncommitted in the working tree when the sync() was called and all that
\* master held then, whether the merge is aborted, the push fails, the
\* attempts are used up or the sync() ends in any other way.
C20_NoWorkLost ==
    \A p \in Procs :
        PastCommit(p) =>
            /\ sy[p].hadWork => sy[p].repo \in master[sy[p].repo]
            /\ sy[p].masterAtCall \subseteq master[sy[p].repo]

\* A sync() that found an uncommitted edit has used up its attempts on
\* aborted merges and failed pushes and has given up: the edit is in the
\* local master and not in the remote.
C20_Witness ==
    \E p \in Procs :
        /\ Returned(p)
        /\ sy[p].outcome = "SyncError"
        /\ sy[p].hadWork
        /\ sy[p].pushed
        /\ ~sy[p].onlyMergeFails
        /\ sy[p].repo \in master[sy[p].repo]
        /\ sy[p].repo \notin remote

\* ---------------------------------------------------------------- properties of two replicas

\* p and q have each called sync() once, on different replicas that each had
\* an uncommitted edit, and both calls have returned.
BothSynced(p, q) ==
    /\ p # q
    /\ Returned(p) /\ sy[p].caller = "main" /\ sy[p].hadWork
    /\ Returned(q) /\ sy[q].caller = "main" /\ sy[q].hadWork
    /\ sy[p].repo # sy[q].repo

\* C13: two replicas of one remote whose uncommitted edits do not clash and
\* that each called sync() once, the steps of the two interleaved in any way:
\* both calls have returned well, neither after more than two of the five
\* attempts, the remote master holds both edits and neither replica has the
\* marker file.
C13_DisjointEdits ==
    \A p \in Procs, q \in Procs :
        (BothSynced(p, q) /\ ~clash) =>
            /\ sy[p].outcome = "ok" /\ sy[q].outcome = "ok"
            /\ sy[p].attempt <= 2 /\ sy[q].attempt <= 2 /\ 2 <= MaxAttempts
            /\ {sy[p].repo, sy[q].repo} \subseteq remote
            /\ ~marker[sy[p].repo] /\ ~marker[sy[q].repo]

\* Both have returned well, one of them from its second attempt: its first
\* push came after the push of the other and was rejected.
C13_Witness ==
    \E p \in Procs, q \in Procs :
        /\ BothSynced(p, q)
        /\ ~clash
        /\ sy[p].attempt = 1
        /\ sy[q].attempt = 2
        /\ sy[q].commits = 2
        /\ remote = Replicas

\* Neither replica had the edit of the other in its master when its sync()
\* was called: the two edits were made side by side.
SideBySide(p, q) ==
    /\ sy[q].repo \notin sy[p].masterAtCall
    /\ sy[p].repo \notin sy[q].masterAtCall

\* C14: two replicas whose uncommitted edits clash and that each called
\* sync() once: one call has returned well with its edit pushed; the other
\* has used its five attempts, created its marker file and raised SyncError;
\* the remote master holds the edit of the first and not that of the second;
\* and at no time does the edit of a sync() that returned well leave the
\* remote master.
C14_ClashingEdits ==
    /\ \A p \in Procs, q \in Procs :
        (BothSynced(p, q) /\ SideBySide(p, q) /\ clash) =>
            \/ /\ sy[p].outcome = "ok" /\ sy[q].outcome = "SyncError"
               /\ sy[q].attempt = MaxAttempts /\ sy[q].createdMarker /\ marker[sy[q].repo]
               /\ ~marker[sy[p].repo]
               /\ remote = {sy[p].repo}
            \/ /\ sy[q].outcome = "ok" /\ sy[p].outcome = "SyncError"
               /\ sy[p].attempt = MaxAttempts /\ sy[p].createdMarker /\ marker[sy[p].repo]
               /\ ~marker[sy[q].repo]
               /\ remote = {sy[q].repo}
    /\ \A p \in Procs :
        (sy[p].caller = "main" /\ sy[p].outcome = "ok" /\ sy[p].hadWork) =>
            sy[p].repo \in remote

\* The second to push had merged before the first pushed: its own first push
\* was rejected, and its merges after that stopped on the clash.
C14_Witness ==
    \E p \in Procs, q \in Procs :
        /\ BothSynced(p, q)
        /\ SideBySide(p, q)
        /\ clash
        /\ sy[p].outcome = "ok"
        /\ sy[q].outcome = "SyncError"
        /\ sy[q].pushed
        /\ marker[sy[q].repo]
        /\ remote = {sy[p].repo}

\* q has called sync() on the replica of p after the sync() of p returned, and
\* has returned too; p found no marker file, and the remote holds no edit of
\* another replica that clashes with one in this replica.
TwiceInARow(p, q) ==
    /\ sy[q].prior = p
    /\ sy[p].failedStep # "init"
    /\ Returned(q)
    /\ ~sy[p].markerSince
    /\ ~(clash /\ remote \ {sy[p].repo} # {} /\ sy[p].repo \in master[sy[p].repo])

\* C15: of two sync() calls in a row on one replica, with nobody else pushing
\* to the remote, both have returned well from their first attempt, there is
\* no marker file, and the second has made no commit: its staged diff was
\* empty, it has not issued git commit, and master is as it found it.
C15_SecondSyncIdle ==
    \A p \in Procs, q \in Procs :
        TwiceInARow(p, q) =>
            /\ sy[p].outcome = "ok" /\ sy[p].attempt = 1
            /\ sy[q].outcome = "ok" /\ sy[q].attempt = 1
            /\ ~marker[sy[q].repo]
            /\ sy[q].commits = 0
            /\ sy[q].staging = "empty"
            /\ ~HasStep(q, "commit")
            /\ master[sy[q].repo] = sy[q].masterAtCall

\* The first call committed an edit and merged the edit of the other replica
\* from the remote; the second call found nothing to do.
C15_Witness ==
    \E p \in Procs, q \in Procs :
        /\ TwiceInARow(p, q)
        /\ sy[p].commits = 2
        /\ sy[q].outcome = "ok"
        /\ master[sy[q].repo] = Replicas
        /\ remote = Replicas

Occurrences(t, w) == Cardinality({k \in 1..Len(t) : HasAt(t, k, w)})

\* The pieces of t that are neither of the two comments nor the job nor a
\* newline, in their order.
RECURSIVE UserText(_)
UserText(t) ==
    IF t = <<>> THEN <<>>
    ELSE IF Head(t) \in {"x", "y"} THEN <<Head(t)>> \o UserText(Tail(t))
    ELSE UserText(Tail(t))

\* C16: when two calls of enable_foolscrate_cronjob() in a row have installed
\* a crontab, the second crontab is the first one; an installed crontab has
\* the start comment line once and the end comment line once; and the entries
\* of a crontab that had no start comment are all in the crontab installed
\* over it, in their order.
C16_CronIdempotent ==
    /\ (Len(cronLog) >= 2 /\ cronLog[1].outcome = "ok" /\ cronLog[2].outcome = "ok") =>
           cronLog[2].after = cronLog[1].after
    /\ \A k \in 1..Len(cronLog) :
           cronLog[k].outcome = "ok" =>
               /\ Occurrences(cronLog[k].after.text, cron_start) = 1
               /\ Occurrences(cronLog[k].after.text, cron_end) = 1
               /\ Occurrences(cronLog[k].before.text, <<"start">>) = 0 =>
                      UserText(cronLog[k].after.text) = UserText(cronLog[k].before.text)

\* C17: a cleanup_tracked() returns normally and leaves in the registry the
\* paths that were tracked and whose directory still exists.
C17_CleanupPrunes ==
    (Len(hist) >= 1 /\ hist[1].op = "cleanup") =>
        /\ hist[1].outcome = "ok"
        /\ Range(TrackOf(registry)) = {d \in hist[1].before : dirState[d] # "gone"}

====
